---------------------------- MODULE Spec2Model ----------------------------
(***************************************************************************)
(* Model of the adaptive weight logic of qrefine: class weights, the sites  *)
(* calculator that shares a weights object, the displacement-parameter     *)
(* calculator and get_bonds_rmsd (src/calculator.py), and the session      *)
(* set-up of run() and create_calculator (src/qr.py).                      *)
(*                                                                         *)
(* Numbers.  Python floats are modelled as exact rationals <<n, d>> with   *)
(* d > 0 and gcd(n, d) = 1, so that equality and ordering of the model     *)
(* are the equality and ordering of the represented values.  None is the   *)
(* empty tuple.  A square root is rounded down to three decimals (the code *)
(* rounds it to the nearest double).                                       *)
(***************************************************************************)
EXTENDS Integers, Sequences, FiniteSets, TLC

VARIABLES
  \* fields of the weights object (calculator.py:24-36)
  shake_sites, restraints_weight, data_weight, restraints_weight_scale,
  weight_was_provided, restraints_weight_scales, r_frees, r_works,
  \* the two global random generators seeded by compute_weight
  py_random, flex_random,
  \* fields of the sites calculator (calculator.py:167-187)
  fmodel, restraints_manager, x,
  \* the displacement-parameter calculator (calculator.py:229-276), a record
  \* of its fields, and the session run() works through (qr.py:297-402)
  adp, session,
  \* the sites calculator's dump_gradients (calculator.py:171), the
  \* restraints-only calculator sites_opt (calculator.py:136-160), a record
  \* of its fields, and the files easy_pickle.dump has written
  dump_gradients, sites_opt, dumped,
  \* history variables: the constructor arguments of the weights object, the
  \* last call (operation, arguments, outcome) and the number of calls made
  ctor, last, ncalls

weights_vars == <<shake_sites, restraints_weight, data_weight,
                  restraints_weight_scale, weight_was_provided,
                  restraints_weight_scales, r_frees, r_works>>
random_vars  == <<py_random, flex_random>>
sites_vars   == <<fmodel, restraints_manager, x>>
dump_vars    == <<dump_gradients, sites_opt, dumped>>
vars == <<weights_vars, random_vars, sites_vars, adp, session, dump_vars,
          ctor, last, ncalls>>

---------------------------------------------------------------------------
(* Bounds of the model *)

\* calls made on the objects in one behaviour
MaxCalls == 2
\* atoms of the structure
NAtoms == 7

---------------------------------------------------------------------------
(* Exact rational arithmetic standing for float arithmetic *)

None == <<>>

Abs(n) == IF n < 0 THEN -n ELSE n

RECURSIVE GCD(_, _)
GCD(a, b) == IF b = 0 THEN a ELSE GCD(b, a % b)

\* the rational n/d in lowest terms; d = 0 has no value (ZeroDivisionError)
Undefined == <<0, 0>>
Rat(n, d) ==
  IF d = 0 THEN Undefined
  ELSE LET g == GCD(Abs(n), Abs(d))
           s == IF d < 0 THEN -1 ELSE 1
       IN <<(s * n) \div g, (s * d) \div g>>

R(n)       == <<n, 1>>
RMul(a, b) == Rat(a[1] * b[1], a[2] * b[2])
RDiv(a, b) == Rat(a[1] * b[2], a[2] * b[1])
RAdd(a, b) == Rat(a[1] * b[2] + b[1] * a[2], a[2] * b[2])
RSub(a, b) == Rat(a[1] * b[2] - b[1] * a[2], a[2] * b[2])
RAbs(a)    == <<Abs(a[1]), a[2]>>
RLt(a, b)  == a[1] * b[2] < b[1] * a[2]
RGt(a, b)  == RLt(b, a)

\* Python 2 round(v, 4): to four decimals, halves away from zero
Round4(v) ==
  LET m == (Abs(v[1]) * 20000 + v[2]) \div (2 * v[2])
  IN Rat(IF v[1] < 0 THEN -m ELSE m, 10000)


RECURSIVE ISqrtIn(_, _, _)
\* the largest r in lo..hi with r * r <= n
ISqrtIn(n, lo, hi) ==
  IF lo >= hi THEN lo
  ELSE LET mid == (lo + hi + 1) \div 2
       IN IF mid * mid <= n THEN ISqrtIn(n, mid, hi) ELSE ISqrtIn(n, lo, mid - 1)

\* sqrt of a non-negative integer, rounded down to three decimals
FSqrt(n) == Rat(ISqrtIn(n * 1000000, 0, IF n < 46 THEN n * 1000 ELSE 46340), 1000)

---------------------------------------------------------------------------
(* Vectors: a vec3 is <<a, b, c>>, a flex.vec3_double a sequence of them *)

RECURSIVE TupleOf(_, _)
TupleOf(f, n) == IF n = 0 THEN <<>> ELSE Append(TupleOf(f, n - 1), f[n])
\* the sequence f with every element evaluated
Tuple(f) == TupleOf(f, Len(f))

Dot(v)       == v[1] * v[1] + v[2] * v[2] + v[3] * v[3]
VSub(v, w)   == <<v[1] - w[1], v[2] - w[2], v[3] - w[3]>>
VAdd(v, w)   == <<v[1] + w[1], v[2] + w[2], v[3] + w[3]>>

RECURSIVE SumInt(_)
SumInt(s) == IF Len(s) = 0 THEN 0 ELSE Head(s) + SumInt(Tail(s))

RECURSIVE SumRat(_)
SumRat(s) == IF Len(s) = 0 THEN R(0) ELSE RAdd(Head(s), SumRat(Tail(s)))

\* flex.vec3_double.norm(): the root of the sum of all squared components
Norm(g) == FSqrt(SumInt(Tuple([i \in 1..Len(g) |-> Dot(g[i])])))

\* flex.sqrt(g.dot()): the per-atom lengths
SqrtDot(g) == Tuple([i \in 1..Len(g) |-> FSqrt(Dot(g[i]))])

\* flex.mean (defined on non-empty arrays)
Mean(d) == RDiv(SumRat(d), R(Len(d)))

\* a.select(flags): the elements whose flag is TRUE, in order
RECURSIVE Select(_, _)
Select(a, flags) ==
  IF Len(a) = 0 THEN <<>>
  ELSE (IF Head(flags) THEN <<Head(a)>> ELSE <<>>) \o Select(Tail(a), Tail(flags))

---------------------------------------------------------------------------
(* External collaborators (cctbx), reduced to what the code asks of them.  *)
(* An fmodel holds the structure (sites) and the data it is fitted to; a   *)
(* restraints manager holds the ideal geometry.  Both targets are          *)
(* half the summed squared distance, so a gradient is a difference.        *)

BaseSites == Tuple([i \in 1..NAtoms |-> <<i, 0, 0>>])

\* fmodel.target_functor()(compute_gradients=True) at the fmodel's structure
DataTarget(fm)   == SumInt(Tuple([i \in 1..Len(fm.sites) |-> Dot(VSub(fm.sites[i], fm.f_obs[i]))]))
DataGradient(fm) == Tuple([i \in 1..Len(fm.sites) |-> VSub(fm.sites[i], fm.f_obs[i])])

\* rm.target_and_gradients(sites_cart)
RestraintsTarget(rm, sites)   == SumInt(Tuple([i \in 1..Len(sites) |-> Dot(VSub(sites[i], rm.ideal[i]))]))
RestraintsGradient(rm, sites) == Tuple([i \in 1..Len(sites) |-> VSub(sites[i], rm.ideal[i])])

\* random.seed(n) / flex.set_random_seed(n): the generator state after seeding
Seed(n) == n

\* the generator: a full-period congruential step on 0..15
NextRandom(g) == (5 * g + 3) % 16

RECURSIVE Draws(_, _)
\* the states the generator goes through in k draws from state g
Draws(g, k) == IF k = 0 THEN <<>> ELSE <<NextRandom(g)>> \o Draws(NextRandom(g), k - 1)

\* the displacement a draw stands for
ShakeVector(d) == <<(d % 3) - 1, ((d \div 3) % 3) - 1, 0>>

\* xrs.shake_sites_in_place: every atom is displaced by its own draw
ShakeSites(sites, g) ==
  LET ds == Draws(g, Len(sites))
  IN [sites |-> Tuple([i \in 1..Len(sites) |-> VAdd(sites[i], ShakeVector(ds[i]))]),
      random |-> IF Len(sites) = 0 THEN g ELSE ds[Len(sites)]]

\* fmodel.update_xray_structure(xray_structure, update_f_calc=True)
UpdateXrayStructure(fm, sites) == [fm EXCEPT !.sites = sites]

---------------------------------------------------------------------------
(* Inputs the operations are called with *)

\* data_weight and restraints_weight_scale handed to weights.__init__
DataWeightArgs == {None, R(1), Rat(1, 2)}
ScaleArgs      == {R(1), R(32)}

\* <<r_work, r_free>> reported by fmodel: r_free below r_work (gap 4 and 9),
\* equal, above with a gap of 4, of exactly 5 (0.05 and 0.10, whose gap is
\* 5.0 in doubles too) and of 9, and a pair with digits beyond the fourth
\* decimal
RFactors ==
  { <<Rat(25, 100), Rat(21, 100)>>, <<Rat(30, 100), Rat(21, 100)>>,
    <<Rat(21, 100), Rat(21, 100)>>, <<Rat(21, 100), Rat(25, 100)>>,
    <<Rat(5, 100), Rat(10, 100)>>, <<Rat(21, 100), Rat(30, 100)>>,
    <<Rat(21004, 100000), Rat(25006, 100000)>> }

\* <<bond rmsd, max_bond_rmsd>>: above, at and below the threshold
BondRmsds ==
  { <<Rat(5, 100), Rat(3, 100)>>, <<Rat(3, 100), Rat(3, 100)>>,
    <<Rat(1, 100), Rat(3, 100)>> }

\* the scale argument of adjust_restraints_weight_scale
AdjustScales == {R(1), R(2), Rat(3, 2)}

---------------------------------------------------------------------------
(* The record of the last call *)

NoArgs == [none |-> TRUE]

Call(op, args, ret, raised, evaluator_calls, pre_scale) ==
  [op |-> op, args |-> args, ret |-> ret, raised |-> raised,
   evaluator_calls |-> evaluator_calls, pre_scale |-> pre_scale]

---------------------------------------------------------------------------
(* class weights *)

\* weights.__init__
weights_init(ss, rw, dw, rws) ==
  /\ shake_sites = ss
  /\ restraints_weight = rw
  /\ data_weight = dw
  /\ restraints_weight_scale = rws
  /\ weight_was_provided = (dw # None)
  /\ restraints_weight_scales = <<rws>>
  /\ r_frees = <<>>
  /\ r_works = <<>>
  /\ ctor = [data_weight |-> dw, restraints_weight_scale |-> rws]

\* scale_restraints_weight as it would be without its early return
scale_restraints_weight_unguarded ==
  /\ ncalls < MaxCalls
  /\ ncalls' = ncalls + 1
  /\ restraints_weight_scale' = RMul(restraints_weight_scale, R(4))
  /\ last' = Call("scale_restraints_weight", NoArgs, "None", "", 0,
                  restraints_weight_scale)
  /\ UNCHANGED <<shake_sites, restraints_weight, data_weight,
                 weight_was_provided, restraints_weight_scales, r_frees,
                 r_works, random_vars, sites_vars, ctor, dump_vars, adp,
                 session>>

\* scale_restraints_weight as it would be were the scale doubled
scale_restraints_weight_doubled ==
  /\ ncalls < MaxCalls
  /\ ncalls' = ncalls + 1
  /\ restraints_weight_scale' =
       IF weight_was_provided THEN restraints_weight_scale
       ELSE RMul(restraints_weight_scale, R(2))
  /\ last' = Call("scale_restraints_weight", NoArgs, "None", "", 0,
                  restraints_weight_scale)
  /\ UNCHANGED <<shake_sites, restraints_weight, data_weight,
                 weight_was_provided, restraints_weight_scales, r_frees,
                 r_works, random_vars, sites_vars, ctor, dump_vars, adp,
                 session>>

\* weights.scale_restraints_weight
scale_restraints_weight ==
  /\ ncalls < MaxCalls
  /\ ncalls' = ncalls + 1
  /\ restraints_weight_scale' =
       IF weight_was_provided THEN restraints_weight_scale
       ELSE RMul(restraints_weight_scale, R(4))
  /\ last' = Call("scale_restraints_weight", NoArgs, "None", "", 0,
                  restraints_weight_scale)
  /\ UNCHANGED <<shake_sites, restraints_weight, data_weight,
                 weight_was_provided, restraints_weight_scales, r_frees,
                 r_works, random_vars, sites_vars, ctor, dump_vars, adp,
                 session>>

\* The four if statements of adjust_restraints_weight_scale, each taking and
\* giving the pair (restraints_weight_scale, adjusted)
Branch1(st, rw, rf, b, maxb, scale) ==
  IF RGt(b, maxb)
  THEN [scale |-> RMul(st.scale, scale), adjusted |-> TRUE]
  ELSE st

\* Branch2 as it would be without its "not adjusted" test
Branch2Unguarded(st, rw, rf, b, maxb, scale) ==
  IF RLt(rf, rw)
  THEN [scale |-> RDiv(st.scale, scale), adjusted |-> TRUE]
  ELSE st

\* Branch2 as it would be with the comparison of rf and rw turned around
Branch2Reversed(st, rw, rf, b, maxb, scale) ==
  IF ~st.adjusted /\ RGt(rf, rw)
  THEN [scale |-> RDiv(st.scale, scale), adjusted |-> TRUE]
  ELSE st

Branch2(st, rw, rf, b, maxb, scale) ==
  IF ~st.adjusted /\ RLt(rf, rw)
  THEN [scale |-> RDiv(st.scale, scale), adjusted |-> TRUE]
  ELSE st

\* Branch3 as it would be with "not above the threshold" for "below" it
Branch3Inclusive(st, rw, rf, b, maxb, scale) ==
  IF /\ ~st.adjusted
     /\ ~RGt(b, maxb)
     /\ RGt(rf, rw)
     /\ RLt(RMul(RAbs(RSub(rf, rw)), R(100)), R(5))
  THEN [scale |-> RDiv(st.scale, scale), adjusted |-> TRUE]
  ELSE st

Branch3(st, rw, rf, b, maxb, scale) ==
  IF /\ ~st.adjusted
     /\ RLt(b, maxb)
     /\ RGt(rf, rw)
     /\ RLt(RMul(RAbs(RSub(rf, rw)), R(100)), R(5))
  THEN [scale |-> RDiv(st.scale, scale), adjusted |-> TRUE]
  ELSE st

\* Branch4 as it would be were the scale stepped up by addition
Branch4Adding(st, rw, rf, b, maxb, scale) ==
  IF /\ ~st.adjusted
     /\ RLt(b, maxb)
     /\ RGt(rf, rw)
     /\ RGt(RMul(RAbs(RSub(rf, rw)), R(100)), R(5))
  THEN [scale |-> RAdd(st.scale, scale), adjusted |-> TRUE]
  ELSE st

Branch4(st, rw, rf, b, maxb, scale) ==
  IF /\ ~st.adjusted
     /\ RLt(b, maxb)
     /\ RGt(rf, rw)
     /\ RGt(RMul(RAbs(RSub(rf, rw)), R(100)), R(5))
  THEN [scale |-> RMul(st.scale, scale), adjusted |-> TRUE]
  ELSE st

\* lines 56-70: adjusted = False, then the four if statements in order
AdjustBranches(rws, rw, rf, b, maxb, scale) ==
  LET s0 == [scale |-> rws, adjusted |-> FALSE]
      s1 == Branch1(s0, rw, rf, b, maxb, scale)
      s2 == Branch2(s1, rw, rf, b, maxb, scale)
      s3 == Branch3(s2, rw, rf, b, maxb, scale)
  IN Branch4(s3, rw, rf, b, maxb, scale)

\* AdjustReturn as it would be were adjusted False from the start
AdjustReturnBool(provided, adjusted) ==
  IF adjusted THEN "True" ELSE "False"

\* the value adjust_restraints_weight_scale returns
AdjustReturn(provided, adjusted) ==
  IF provided THEN "None" ELSE IF adjusted THEN "True" ELSE "False"

\* Recorded as it would be were the append part of the branch that fired
RecordedWhenAdjusted(h, v, adjusted) ==
  IF adjusted THEN Append(h, Round4(v)) ELSE h

\* lines 72-73: the history h after the call, v the R factor of the call;
\* the appends come after the four if statements and do not read adjusted
Recorded(h, v, adjusted) == Append(h, Round4(v))

\* weights.adjust_restraints_weight_scale; fmodel.r_work(), fmodel.r_free()
\* and get_bonds_rmsd(...) give rw, rf and b
adjust_restraints_weight_scale ==
  /\ ncalls < MaxCalls
  /\ ncalls' = ncalls + 1
  /\ \E rr \in RFactors, bb \in BondRmsds, scale \in AdjustScales :
       LET rw   == rr[1]
           rf   == rr[2]
           b    == bb[1]
           maxb == bb[2]
           args == [r_work |-> rw, r_free |-> rf, bonds_rmsd |-> b,
                    max_bond_rmsd |-> maxb, scale |-> scale]
           st   == AdjustBranches(restraints_weight_scale, rw, rf, b, maxb, scale)
       IN IF weight_was_provided
          THEN /\ last' = Call("adjust_restraints_weight_scale", args,
                               AdjustReturn(TRUE, FALSE), "", 0,
                               restraints_weight_scale)
               /\ UNCHANGED <<restraints_weight_scale, r_frees, r_works>>
          ELSE /\ restraints_weight_scale' = st.scale
               /\ r_frees' = Recorded(r_frees, rf, st.adjusted)
               /\ r_works' = Recorded(r_works, rw, st.adjusted)
               /\ last' = Call("adjust_restraints_weight_scale", args,
                               AdjustReturn(FALSE, st.adjusted), "", 3,
                               restraints_weight_scale)
  /\ UNCHANGED <<shake_sites, restraints_weight, data_weight,
                 weight_was_provided, restraints_weight_scales,
                 random_vars, sites_vars, ctor, dump_vars, adp,
                 session>>

\* ScaleRecorded as it would be were only the latest scale kept
ScaleRecordedAlone(h, v) == <<v>>

\* line 78: restraints_weight_scales.append(restraints_weight_scale)
ScaleRecorded(h, v) == Append(h, v)

\* weights.add_restraints_weight_scale_to_restraints_weight_scales
add_restraints_weight_scale_to_restraints_weight_scales ==
  /\ ncalls < MaxCalls
  /\ ncalls' = ncalls + 1
  /\ restraints_weight_scales' =
       IF weight_was_provided THEN restraints_weight_scales
       ELSE ScaleRecorded(restraints_weight_scales, restraints_weight_scale)
  /\ last' = Call("add_restraints_weight_scale_to_restraints_weight_scales",
                  NoArgs, "None", "", 0, restraints_weight_scale)
  /\ UNCHANGED <<shake_sites, restraints_weight, data_weight,
                 restraints_weight_scale, weight_was_provided, r_frees,
                 r_works, random_vars, sites_vars, ctor, dump_vars, adp,
                 session>>

---------------------------------------------------------------------------
(* weights.compute_weight *)

\* Reseeded as it would be were the generator left as the call found it
ReseededNot(g) == g

\* lines 82-83: random.seed(1) and flex.set_random_seed(1) put a generator
\* that was in state g into the state of the fixed seed
Reseeded(g) == Seed(1)

\* lines 85-89: the deep copy of the structure, shaken when shake_sites is
\* set, with the generator as the seeding of lines 82-83 left it
PerturbedSites(fm, shake) ==
  IF shake THEN ShakeSites(fm.sites, Reseeded(flex_random))
  ELSE [sites |-> fm.sites, random |-> Reseeded(flex_random)]

\* OutlierMask as it would be with a limit of 6 above the mean
OutlierMaskAbsolute(g_d) ==
  LET limit == RAdd(Mean(g_d), R(6))
  IN Tuple([i \in 1..Len(g_d) |-> RGt(g_d[i], limit)])

\* lines 99, 103: g_d > flex.mean(g_d)*6 on the per-atom lengths g_d
OutlierMask(g_d) ==
  LET limit == RMul(Mean(g_d), R(6))
  IN Tuple([i \in 1..Len(g_d) |-> RGt(g_d[i], limit)])

\* lines 98-99, 102-103: sel = g_d > flex.mean(g_d)*6
OutlierSelection(g) == OutlierMask(SqrtDot(g))

\* lines 100, 104: g.select(~sel).norm()
RetainedNorm(g) ==
  LET sel == OutlierSelection(g)
  IN Norm(Select(g, Tuple([i \in 1..Len(g) |-> ~sel[i]])))

\* WeightFromNorms as it would be without the fallback
WeightFromNormsUnguarded(xn, yn) == RDiv(xn, yn)

\* lines 106-107
WeightFromNorms(xn, yn) ==
  IF yn # R(0) THEN RDiv(xn, yn) ELSE R(1)

\* ComputedWeight as it would be with the two norms in each other's place
ComputedWeightSwapped(fm, rm, shake) ==
  LET xrs == PerturbedSites(fm, shake).sites
      gx  == DataGradient(UpdateXrayStructure(fm, xrs))
      gc  == RestraintsGradient(rm, xrs)
  IN WeightFromNorms(RetainedNorm(gx), RetainedNorm(gc))

\* lines 90-107: gx is the data gradient, gc the restraints gradient, both
\* at the perturbed structure; x comes from gc and y from gx
ComputedWeight(fm, rm, shake) ==
  LET xrs == PerturbedSites(fm, shake).sites
      gx  == DataGradient(UpdateXrayStructure(fm, xrs))
      gc  == RestraintsGradient(rm, xrs)
  IN WeightFromNorms(RetainedNorm(gc), RetainedNorm(gx))

\* CallerFModel as it would be were the shaken structure written back
CallerFModelShaken(fm, shake) ==
  UpdateXrayStructure(fm, PerturbedSites(fm, shake).sites)

\* lines 85-89: the fmodel the caller passed, after the call; the shake and
\* the update are applied to fmodel.deep_copy() and deep_copy_scatterers()
CallerFModel(fm, shake) == fm

\* compute_weight(self, fmodel, rm), called as operation op; through
\* sites.calculate_weight the fmodel passed is the calculator's own
compute_weight_call(op, fm, rm) ==
  /\ ncalls < MaxCalls
  /\ ncalls' = ncalls + 1
  /\ IF weight_was_provided
     THEN /\ last' = Call(op, [fmodel |-> fm, rm |-> rm], "None", "", 0,
                          restraints_weight_scale)
          /\ UNCHANGED <<data_weight, random_vars, fmodel>>
     ELSE /\ py_random' = Reseeded(py_random)
          /\ flex_random' = PerturbedSites(fm, shake_sites).random
          /\ fmodel' = IF op = "calculate_weight"
                       THEN CallerFModel(fm, shake_sites)
                       ELSE fmodel
          /\ \E w \in {ComputedWeight(fm, rm, shake_sites)} :
                \* a division by zero raises before the assignment
                /\ data_weight' = IF w = Undefined THEN data_weight ELSE w
                /\ last' = Call(op, [fmodel |-> fm, rm |-> rm], "None",
                                IF w = Undefined THEN "ZeroDivisionError" ELSE "",
                                2, restraints_weight_scale)
  /\ UNCHANGED <<shake_sites, restraints_weight, restraints_weight_scale,
                 weight_was_provided, restraints_weight_scales, r_frees,
                 r_works, restraints_manager, x, ctor, dump_vars, adp,
                 session>>

\* the gradients a structure is given: none, one displaced atom, all atoms
\* alike, one atom far above the others
Patterns ==
  { Tuple([i \in 1..NAtoms |-> <<0, 0, 0>>]),
    Tuple([i \in 1..NAtoms |-> IF i = 1 THEN <<2, 0, 0>> ELSE <<0, 0, 0>>]),
    Tuple([i \in 1..NAtoms |-> <<1, 0, 0>>]),
    Tuple([i \in 1..NAtoms |-> IF i = 1 THEN <<37, 0, 0>> ELSE <<0, 1, 0>>]) }

\* the structures the patterns are taken at: as given and as shaken
References == {BaseSites, ShakeSites(BaseSites, Seed(1)).sites}

With(ref, p) == Tuple([i \in 1..NAtoms |-> VSub(ref[i], p[i])])

FModels == { [sites |-> BaseSites, f_obs |-> With(ref, p)] :
               ref \in References, p \in Patterns }
RMs     == { [ideal |-> With(ref, p)] : ref \in References, p \in Patterns }

\* weights.compute_weight called on the weights object
compute_weight ==
  \E fm \in FModels, rm \in RMs : compute_weight_call("compute_weight", fm, rm)

\* the gradients the outlier selection is taken of: atom 1 of length a along
\* the first axis, every other atom the vector b
MaskGradients ==
  { Tuple([i \in 1..NAtoms |-> IF i = 1 THEN <<a, 0, 0>> ELSE b]) :
      a \in {0, 1, 2, 21, 36, 37},
      b \in {<<0, 0, 0>>, <<0, 1, 0>>, <<3, 4, 0>>} }

\* the positive constants the per-atom lengths are multiplied by
MaskFactors ==
  {Rat(1, 1000), Rat(1, 3), Rat(1, 2), R(2), R(3), R(7), R(100)}

\* d * k, element by element
Scaled(d, k) == Tuple([i \in 1..Len(d) |-> RMul(d[i], k)])

\* lines 98-99 on a gradient g: the per-atom lengths and their mask; the
\* factor k is kept with the call
outlier_selection ==
  /\ ncalls < MaxCalls
  /\ ncalls' = ncalls + 1
  /\ \E g \in MaskGradients, k \in MaskFactors :
       \E g_d \in {SqrtDot(g)} :
         last' = Call("outlier_selection", [g_d |-> g_d, factor |-> k],
                      OutlierMask(g_d), "", 0, restraints_weight_scale)
  /\ UNCHANGED <<weights_vars, random_vars, sites_vars, ctor, dump_vars, adp,
                 session>>

---------------------------------------------------------------------------
(* class sites: the calculator that shares the weights object *)

\* x.as_double() and flex.vec3_double(x): between vec3 arrays and flat arrays
AsDouble(v) ==
  Tuple([k \in 1..(3 * Len(v)) |-> v[((k - 1) \div 3) + 1][((k - 1) % 3) + 1]])
Vec3Double(xs) ==
  Tuple([i \in 1..(Len(xs) \div 3) |->
           <<xs[3 * i - 2], xs[3 * i - 1], xs[3 * i]>>])

\* sites.__init__ and sites.initialize: x is the structure's sites
sites_init(fm, rm) ==
  /\ fmodel = fm
  /\ restraints_manager = rm
  /\ x = AsDouble(fm.sites)

\* sites.calculate_weight
calculate_weight ==
  compute_weight_call("calculate_weight", fmodel, restraints_manager)

\* sites.update_restraints_weight_scale
update_restraints_weight_scale ==
  /\ ncalls < MaxCalls
  /\ ncalls' = ncalls + 1
  /\ \E v \in ScaleArgs \cup {R(4)} :
       /\ restraints_weight_scale' = v
       /\ last' = Call("update_restraints_weight_scale",
                       [restraints_weight_scale |-> v], "None", "", 0,
                       restraints_weight_scale)
  /\ UNCHANGED <<shake_sites, restraints_weight, data_weight,
                 weight_was_provided, restraints_weight_scales, r_frees,
                 r_works, random_vars, sites_vars, ctor, dump_vars, adp,
                 session>>

\* Combine as it would be without the restraints weight scale
CombineUnscaled(d, r, dw, rw, rws) ==
  RAdd(RMul(R(d), dw), RMul(rw, R(r)))

\* lines 217-220: data*data_weight + restraints_weight*restraints*scale
Combine(d, r, dw, rw, rws) ==
  RAdd(RMul(R(d), dw), RMul(RMul(rw, R(r)), rws))

\* the parameter vectors the optimizer evaluates
ParameterVectors == { AsDouble(ref) : ref \in References }

\* sites.update: x is written into the fmodel's structure
SitesUpdate(fm, xs) == UpdateXrayStructure(fm, Vec3Double(xs))

\* TargetAndGradients as it would be were the data target taken at the
\* structure the fmodel held before the update
TargetAndGradientsStale(fm, rm, xs, dw, rw, rws) ==
  LET sx == Vec3Double(xs)
      rt == RestraintsTarget(rm, sx)
      rg == AsDouble(RestraintsGradient(rm, sx))
      dt == DataTarget(fm)
      dg == AsDouble(DataGradient(fm))
  IN [fmodel   |-> SitesUpdate(fm, xs),
      target   |-> Combine(dt, rt, dw, rw, rws),
      gradient |-> Tuple([k \in 1..Len(dg) |-> Combine(dg[k], rg[k], dw, rw, rws)])]

\* lines 211-220: the update, the two evaluations and their combination; the
\* fmodel as the call leaves it, the target and the gradient
TargetAndGradients(fm, rm, xs, dw, rw, rws) ==
  LET sx  == Vec3Double(xs)
      fmu == SitesUpdate(fm, xs)
      rt  == RestraintsTarget(rm, sx)
      rg  == AsDouble(RestraintsGradient(rm, sx))
      dt  == DataTarget(fmu)
      dg  == AsDouble(DataGradient(fmu))
  IN [fmodel   |-> fmu,
      target   |-> Combine(dt, rt, dw, rw, rws),
      gradient |-> Tuple([k \in 1..Len(dg) |-> Combine(dg[k], rg[k], dw, rw, rws)])]

\* SharedScale as it would be were the scale copied when the calculator
\* is built
CopiedScale(current, constructed) == constructed

\* lines 176 and 218: sites keeps the weights object itself, and reads
\* weights.restraints_weight_scale when the target is combined
SharedScale(current, constructed) == current

\* the test of lines 156 and 221 as it would be were the dump unconditional
DumpingAlways(name) == TRUE

\* lines 156 and 221: the dump is asked for by a file name
Dumping(name) == name # None

\* STOP() is not defined or imported in calculator.py: where libtbx has
\* installed its builtin of that name the interpreter exits, elsewhere the
\* call is a NameError; in both the method returns nothing
StopOutcomes == {"SystemExit", "NameError"}

\* lines 223-225: the data gradient, the restraints gradient and their
\* combination, each pickled under the name with its suffix appended
SitesDump(name, fm, rm, xs, g) ==
  << [file |-> name \o <<"_dg">>, obj |-> AsDouble(DataGradient(SitesUpdate(fm, xs)))],
     [file |-> name \o <<"_rg">>, obj |-> AsDouble(RestraintsGradient(rm, Vec3Double(xs)))],
     [file |-> name \o <<"_g">>,  obj |-> g] >>

\* sites.target_and_gradients, sites.update included
target_and_gradients ==
  /\ ncalls < MaxCalls
  /\ last.raised \notin StopOutcomes
  /\ ncalls' = ncalls + 1
  /\ \E xs \in ParameterVectors :
       /\ x' = AsDouble(Vec3Double(xs))
       /\ IF data_weight = None
          THEN \* a float times None, after the update and the evaluations
               /\ fmodel' = SitesUpdate(fmodel, xs)
               /\ dumped' = dumped
               /\ last' = Call("target_and_gradients", [x |-> xs], "None",
                               "TypeError", 2, restraints_weight_scale)
          ELSE \E ev \in {TargetAndGradients(fmodel, restraints_manager, xs,
                              data_weight, restraints_weight,
                              SharedScale(restraints_weight_scale,
                                          ctor.restraints_weight_scale))} :
                 /\ fmodel' = ev.fmodel
                 /\ IF Dumping(dump_gradients)
                    THEN /\ dumped' = dumped \o SitesDump(dump_gradients, fmodel,
                                        restraints_manager, xs, ev.gradient)
                         /\ \E stop \in StopOutcomes :
                              last' = Call("target_and_gradients", [x |-> xs],
                                           "None", stop, 2,
                                           restraints_weight_scale)
                    ELSE /\ dumped' = dumped
                         /\ last' = Call("target_and_gradients", [x |-> xs],
                                         [target |-> ev.target,
                                          gradient |-> ev.gradient],
                                         "", 2, restraints_weight_scale)
  /\ UNCHANGED <<weights_vars, random_vars, restraints_manager, ctor, adp,
                 session, dump_gradients, sites_opt>>

---------------------------------------------------------------------------
(* class sites_opt: the calculator of the restraints alone *)

\* sites_opt.__init__ and sites_opt.initialize
sites_opt_init(rm, xrs, name) ==
  sites_opt = [restraints_manager |-> rm, xray_structure |-> xrs,
               x |-> AsDouble(xrs), dump_gradients |-> name]

\* sites_opt.target_and_gradients, sites_opt.update included
sites_opt_target_and_gradients ==
  /\ sites_opt # None
  /\ ncalls < MaxCalls
  /\ last.raised \notin StopOutcomes
  /\ ncalls' = ncalls + 1
  /\ \E xs \in ParameterVectors :
       LET f == RestraintsTarget(sites_opt.restraints_manager, Vec3Double(xs))
           g == RestraintsGradient(sites_opt.restraints_manager, Vec3Double(xs))
       IN /\ sites_opt' = [sites_opt EXCEPT !.x = xs]
          /\ IF Dumping(sites_opt.dump_gradients)
             THEN /\ dumped' = Append(dumped, [file |-> sites_opt.dump_gradients,
                                               obj  |-> g])
                  /\ \E stop \in StopOutcomes :
                       last' = Call("sites_opt.target_and_gradients",
                                    [x |-> xs], "None", stop, 1, None)
             ELSE /\ dumped' = dumped
                  /\ last' = Call("sites_opt.target_and_gradients", [x |-> xs],
                                  [target |-> f, gradient |-> AsDouble(g)],
                                  "", 1, None)
  /\ UNCHANGED <<weights_vars, random_vars, sites_vars, ctor, adp, session,
                 dump_gradients>>

---------------------------------------------------------------------------
(* class adp: the calculator of the displacement parameters.  Its fmodel   *)
(* holds one u_iso per atom and the values u_obs the data ask for.         *)

\* fmodel.target_functor()(compute_gradients=True) for the u_iso
AdpTarget(fm)   == SumInt(Tuple([i \in 1..Len(fm.u_iso) |->
                     (fm.u_iso[i] - fm.u_obs[i]) * (fm.u_iso[i] - fm.u_obs[i])]))
AdpGradient(fm) == Tuple([i \in 1..Len(fm.u_iso) |-> fm.u_iso[i] - fm.u_obs[i]])

\* adp.__init__ and adp.initialize: the arguments are adopted, x is the
\* u_iso of the structure
adp_init(fm, rm, rw, dw, rws) ==
  adp = [fmodel |-> fm, restraints_manager |-> rm, restraints_weight |-> rw,
         data_weight |-> dw, restraints_weight_scale |-> rws, x |-> fm.u_iso]

\* adp.calculate_weight as it would be were the assignment that follows the
\* raise the first statement
adp_calculate_weight_assigning ==
  /\ ncalls < MaxCalls
  /\ ncalls' = ncalls + 1
  /\ adp' = [adp EXCEPT !.data_weight = R(1)]
  /\ last' = Call("adp.calculate_weight", NoArgs, "None", "", 0,
                  restraints_weight_scale)
  /\ UNCHANGED <<weights_vars, random_vars, sites_vars, ctor, dump_vars, session>>

\* adp.calculate_weight: the raise is the first statement
adp_calculate_weight ==
  /\ ncalls < MaxCalls
  /\ ncalls' = ncalls + 1
  /\ last' = Call("adp.calculate_weight", NoArgs, "None", "RuntimeError", 0,
                  restraints_weight_scale)
  /\ UNCHANGED <<weights_vars, random_vars, sites_vars, ctor, dump_vars, adp,
                 session>>

\* the u_iso the optimizer evaluates
UIsoVectors ==
  { Tuple([i \in 1..NAtoms |-> u]) : u \in {1, 2} } \cup
  { Tuple([i \in 1..NAtoms |-> i]) }

\* adp.target_and_gradients, adp.update included
adp_target_and_gradients ==
  /\ ncalls < MaxCalls
  /\ ncalls' = ncalls + 1
  /\ \E us \in UIsoVectors :
       LET fm == [adp.fmodel EXCEPT !.u_iso = us]
       IN /\ adp' = [adp EXCEPT !.x = us, !.fmodel = fm]
          /\ last' = Call("adp.target_and_gradients", [x |-> us],
                          [target |-> AdpTarget(fm), gradient |-> AdpGradient(fm)],
                          "", 1, restraints_weight_scale)
  /\ UNCHANGED <<weights_vars, random_vars, sites_vars, ctor, dump_vars, session>>

---------------------------------------------------------------------------
(* get_bonds_rmsd.  A structure is its sites and its hydrogen flags; the   *)
(* geometry of a restraints manager is a sequence of bond proxies          *)
(* [i, j, ideal].                                                          *)

\* sqrt of a non-negative rational
RSqrt(q) == RDiv(FSqrt(q[1] * q[2]), R(q[2]))

\* restraints_manager.select(sel): the proxies between two selected atoms
SelectProxies(bonds, sel) ==
  Select(bonds, Tuple([k \in 1..Len(bonds) |-> sel[bonds[k].i] /\ sel[bonds[k].j]]))

\* the bond deltas: model distance minus ideal distance
BondDeltas(bonds, sites) ==
  Tuple([k \in 1..Len(bonds) |->
           RSub(FSqrt(Dot(VSub(sites[bonds[k].i], sites[bonds[k].j]))),
                R(bonds[k].ideal))])

\* energies_sites.bond_deviations()[2]: the root of the mean squared delta,
\* the mean of no deltas taken as 0 (flex.mean_default(b_sq, 0))
BondDeviationsRms(deltas) ==
  IF Len(deltas) = 0 THEN R(0)
  ELSE RSqrt(Mean(Tuple([k \in 1..Len(deltas) |-> RMul(deltas[k], deltas[k])])))

\* get_bonds_rmsd(restraints_manager, xrs): no statement of it looks at the
\* size of the selection
GetBondsRmsd(rm, xrs) ==
  LET not_hd == Tuple([i \in 1..Len(xrs.hd) |-> ~xrs.hd[i]])
  IN BondDeviationsRms(BondDeltas(SelectProxies(rm.bonds, not_hd), xrs.sites))

\* the structures: no atom at all, and NAtoms atoms one or two apart with no
\* hydrogen, only hydrogens, or hydrogens among the atoms
ProbeStructures ==
  { [sites |-> <<>>, hd |-> <<>>] } \cup
  { [sites |-> Tuple([i \in 1..NAtoms |-> <<step * i, 0, 0>>]), hd |-> hd] :
      step \in {1, 2},
      hd \in { Tuple([i \in 1..NAtoms |-> FALSE]),
               Tuple([i \in 1..NAtoms |-> TRUE]),
               Tuple([i \in 1..NAtoms |-> i % 2 = 0]),
               Tuple([i \in 1..NAtoms |-> i % 3 = 0]),
               Tuple([i \in 1..NAtoms |-> i > 1]),
               Tuple([i \in 1..NAtoms |-> i > 2]) } }

\* the geometries of a structure of n atoms: bonds between neighbours or
\* next neighbours, with one ideal length or two in alternation
ProbeGeometries(n) ==
  { [bonds |-> IF n <= gap THEN <<>>
               ELSE Tuple([k \in 1..(n - gap) |->
                             [i |-> k, j |-> k + gap,
                              ideal |-> ideal + (IF alternate THEN k % 2 ELSE 0)]])] :
      gap \in {1, 2}, ideal \in {1, 2, 3}, alternate \in BOOLEAN }

\* get_bonds_rmsd called on a structure and its geometry
get_bonds_rmsd ==
  /\ ncalls < MaxCalls
  /\ ncalls' = ncalls + 1
  /\ \E xrs \in ProbeStructures :
       \E rm \in ProbeGeometries(Len(xrs.sites)) :
         last' = Call("get_bonds_rmsd", [restraints_manager |-> rm, xrs |-> xrs],
                      GetBondsRmsd(rm, xrs), "", 1, restraints_weight_scale)
  /\ UNCHANGED <<weights_vars, random_vars, sites_vars, ctor, dump_vars, adp,
                 session>>

---------------------------------------------------------------------------
(* qr.py: create_calculator and run.  A weights object is a record of its  *)
(* fields; the session is the record of what one call of run() did: the    *)
(* calls it made in order, the error it raised, the weights object that    *)
(* create_calculator ended with and the calculator it returned.            *)

\* the default of the parameter max_atoms
max_atoms == 15000

\* what run() passes to sites_real_space, and the weight its __init__ sets
max_iterations == 100
real_space_target_weight == 1

\* calculator.weights(...): the object weights.__init__ builds
WeightsObject(ss, rw, dw, rws) ==
  [shake_sites |-> ss, restraints_weight |-> rw, data_weight |-> dw,
   restraints_weight_scale |-> rws, weight_was_provided |-> (dw # None),
   restraints_weight_scales |-> <<rws>>, r_frees |-> <<>>, r_works |-> <<>>]

\* the attributes of a weights object, in the order they are pickled
Attributes ==
  <<"shake_sites", "restraints_weight", "data_weight",
    "restraints_weight_scale", "weight_was_provided",
    "restraints_weight_scales", "r_frees", "r_works">>

\* the pickle of an object: its attributes as <<name, value>> pairs
Dumped(w) == Tuple([i \in 1..Len(Attributes) |-> <<Attributes[i], w[Attributes[i]]>>])

\* easy_pickle.load: the object whose attributes the pickle lists
Loaded(p) ==
  [a \in {p[i][1] : i \in 1..Len(p)} |->
     p[CHOOSE i \in 1..Len(p) : p[i][1] = a][2]]

\* the weights objects an interrupted session left in its restart file: one
\* that was adjusted over two cycles, one whose data weight was provided,
\* one as built
BundleWeights ==
  { [WeightsObject(TRUE, R(1), None, R(1)) EXCEPT
       !.data_weight = Rat(3, 2), !.restraints_weight_scale = R(4),
       !.restraints_weight_scales = <<R(1), R(2), R(4)>>,
       !.r_frees = <<Rat(25, 100), Rat(24, 100)>>,
       !.r_works = <<Rat(21, 100), Rat(21, 100)>>],
    WeightsObject(FALSE, R(1), R(2), R(8)),
    WeightsObject(FALSE, R(1), None, R(1)) }

\* rst_file: no file, or a file holding the bundle of an interrupted session
RstFiles ==
  { [is_file |-> FALSE, weights |-> None] } \cup
  { [is_file |-> TRUE, weights |-> Dumped(w)] : w \in BundleWeights }

\* what run() is called with: the atoms of the model, the restart file,
\* whether map_data is given, and the parameters it reads
RunInputs ==
  [natoms : {NAtoms, max_atoms, max_atoms + 1},
   rst_file : RstFiles,
   map_data : BOOLEAN,
   clustering : BOOLEAN,
   dry_run : BOOLEAN,
   mode : {"refine", "opt"},
   refine_sites : BOOLEAN,
   refine_adp : BOOLEAN,
   data_weight : {None, Rat(1, 2)},
   restraints_weight_scale : ScaleArgs,
   \* the iterations the real-space minimizer would need to converge
   lbfgs_needs : {1, max_iterations + 1}]

\* CalculatorWeights as it would be were the weights built from the
\* parameters in every case
CalculatorWeightsRebuilt(weights, params) ==
  WeightsObject(FALSE, R(1), params.data_weight, params.restraints_weight_scale)

\* create_calculator, lines 242-247: a weights object is built from the
\* parameters only when none is passed (shake_sites left at its default)
CalculatorWeights(weights, params) ==
  IF weights = None
  THEN WeightsObject(FALSE, R(1), params.data_weight, params.restraints_weight_scale)
  ELSE weights

\* create_calculator: the weights it ends with, the calculator it returns
\* and the error it raises (adp.__init__ has no parameter named weights)
create_calculator(weights, params) ==
  LET w == CalculatorWeights(weights, params)
  IN IF params.refine_sites
     THEN [weights |-> w, raised |-> "",
           calculator |-> IF params.mode = "refine" THEN "sites" ELSE "sites_opt"]
     ELSE IF params.refine_adp
          THEN [weights |-> w, raised |-> "TypeError", calculator |-> "None"]
          ELSE [weights |-> w, raised |-> "", calculator |-> "None"]

\* TooManyAtoms as it would be were the cap itself too many
TooManyAtomsInclusive(natoms, cap) == natoms >= cap

\* run, line 316: model.pdb_hierarchy.atoms().size() > params.max_atoms
TooManyAtoms(natoms, cap) == natoms > cap

\* sites_real_space.__init__ and run: the minimizer is given the constant
\* weight and stops when converged or after max_iter iterations
sites_real_space(max_iter, needs) ==
  [weight |-> real_space_target_weight, max_iterations |-> max_iter,
   iterations |-> IF needs < max_iter THEN needs ELSE max_iter]

\* RealSpace as it would be were the map ignored
RealSpaceNever(inp) == FALSE

\* run, line 363: a map is given and the mode is 'refine'
RealSpace(inp) == inp.map_data /\ inp.mode = "refine"

\* run, lines 355-402: from the fragment manager to the end, with the
\* session s and the weights the first part of run left
RunRefinement(inp, s, weights) ==
  LET s1 == [s EXCEPT !.calls = @ \o <<"create_fragment_manager",
                                        "create_restraints_manager">>]
  IN IF RealSpace(inp)
     THEN [s1 EXCEPT !.calls = @ \o <<"sites_real_space", "sites_real_space.run">>,
                     !.calculator = "sites_real_space",
                     !.real_space = sites_real_space(max_iterations,
                                                     inp.lbfgs_needs)]
     ELSE LET s2 == IF inp.clustering
                    THEN [s1 EXCEPT !.calls = Append(@, "cluster_restraints.from_cluster")]
                    ELSE s1
              c  == create_calculator(weights, inp)
          IN IF c.raised # ""
             THEN [s2 EXCEPT !.calls = Append(@, "create_calculator"),
                             !.weights = c.weights, !.raised = c.raised]
             ELSE [s2 EXCEPT !.calls = @ \o
                               <<"create_calculator",
                                 IF inp.mode = "refine" THEN "driver.refine"
                                 ELSE "driver.opt",
                                 "results_manager.finalize">>,
                             !.weights = c.weights,
                             !.calculator = c.calculator]

\* run, lines 297-402: the session a call with the inputs inp leaves
Run(inp) ==
  LET s0 == [inp |-> inp, calls |-> <<"validate">>, raised |-> "",
             resumed |-> FALSE, weights |-> None, calculator |-> "None",
             real_space |-> None]
  IN IF inp.rst_file.is_file
     THEN RunRefinement(inp,
                        [s0 EXCEPT !.calls = Append(@, "easy_pickle.load"),
                                   !.resumed = TRUE],
                        Loaded(inp.rst_file.weights))
     ELSE IF TooManyAtoms(inp.natoms, max_atoms)
          THEN [s0 EXCEPT !.raised = "Sorry: Too many atoms."]
          ELSE LET s1 == [s0 EXCEPT !.calls = @ \o <<"restraints.from_cctbx",
                                                     "get_bonds_rmsd">>]
               IN IF inp.dry_run
                  THEN s1
                  ELSE RunRefinement(inp,
                                     [s1 EXCEPT !.calls = Append(@, "results.manager")],
                                     None)

\* run(model, fmodel, map_data, params, rst_file, prefix, log)
run ==
  /\ session = None
  /\ ncalls < MaxCalls
  /\ ncalls' = ncalls + 1
  /\ \E inp \in RunInputs :
       \E s \in {Run(inp)} :
         /\ session' = s
         /\ last' = Call("run", NoArgs, "None", s.raised, 0, None)
  /\ UNCHANGED <<weights_vars, random_vars, sites_vars, ctor, dump_vars, adp>>

---------------------------------------------------------------------------
(* Specifications *)

NotCalled == Call("__init__", NoArgs, "None", "", 0, None)

\* a weights object built from the given arguments (restraints_weight is the
\* 1.0 create_calculator passes), in a sites calculator over one of the given
\* fmodels and restraints managers, the generators in one of the given states;
\* no displacement-parameter calculator and no session
InitWith(sss, dws, rwss, fms, rms, gs) ==
  /\ \E ss \in sss, dw \in dws, rws \in rwss : weights_init(ss, R(1), dw, rws)
  /\ \E fm \in fms, rm \in rms : sites_init(fm, rm)
  /\ py_random \in gs
  /\ flex_random = py_random
  /\ adp = None
  /\ session = None
  /\ dump_gradients = None
  /\ sites_opt = None
  /\ dumped = <<>>
  /\ last = NotCalled
  /\ ncalls = 0

\* the fmodel and restraints manager with no gradient at the given structure
FModel0 == [sites |-> BaseSites, f_obs |-> BaseSites]
RM0     == [ideal |-> BaseSites]
\* a restraints manager with the same gradient on every atom
RM1     == [ideal |-> With(BaseSites, Tuple([i \in 1..NAtoms |-> <<1, 0, 0>>]))]

(* The weights object and the sites calculator that shares it: every method
   of the two that src/ calls or leaves to the driver.  compute_weight is
   reached through sites.calculate_weight. *)
Init == InitWith(BOOLEAN, DataWeightArgs, ScaleArgs, {FModel0}, {RM1}, {0})

Next ==
  \/ scale_restraints_weight
  \/ adjust_restraints_weight_scale
  \/ add_restraints_weight_scale_to_restraints_weight_scales
  \/ calculate_weight
  \/ update_restraints_weight_scale
  \/ target_and_gradients

Spec == Init /\ [][Next]_vars

(* The weight scale controller alone: the weights methods that touch
   restraints_weight_scale and its histories. *)
InitAdjust == InitWith({FALSE}, DataWeightArgs, ScaleArgs, {FModel0}, {RM0}, {0})

NextAdjust ==
  \/ scale_restraints_weight
  \/ adjust_restraints_weight_scale
  \/ add_restraints_weight_scale_to_restraints_weight_scales

SpecAdjust == InitAdjust /\ [][NextAdjust]_vars

(* The weight estimator alone: compute_weight on any fmodel and restraints
   manager, with any state of the generators before the call. *)
InitEstimate ==
  InitWith(BOOLEAN, DataWeightArgs, {R(1)}, {FModel0}, {RM0}, {0, 1, 2})

NextEstimate == compute_weight

SpecEstimate == InitEstimate /\ [][NextEstimate]_vars

(* A weights object whose data weight was provided, under every method of
   the class. *)
InitProvided ==
  InitWith(BOOLEAN, DataWeightArgs \ {None}, ScaleArgs, {FModel0}, {RM0}, {0, 1})

NextProvided ==
  \/ scale_restraints_weight
  \/ adjust_restraints_weight_scale
  \/ add_restraints_weight_scale_to_restraints_weight_scales
  \/ compute_weight

SpecProvided == InitProvided /\ [][NextProvided]_vars

(* The sites calculator estimating its weight: calculate_weight on the
   calculator's own fmodel, between evaluations that move the structure;
   no data weight was provided. *)
InitCalculate ==
  InitWith(BOOLEAN, {None}, ScaleArgs,
           { [sites |-> BaseSites, f_obs |-> With(BaseSites, p)] : p \in Patterns },
           {RM0, RM1}, {0, 1})

NextCalculate ==
  \/ calculate_weight
  \/ target_and_gradients

SpecCalculate == InitCalculate /\ [][NextCalculate]_vars

(* The outlier selection of compute_weight alone, on any gradient. *)
InitMask == InitWith({FALSE}, {None}, {R(1)}, {FModel0}, {RM0}, {0})

NextMask == outlier_selection

SpecMask == InitMask /\ [][NextMask]_vars

(* The sites calculator's objective alone: evaluations at any vector, with
   the weights object in any state the shared scale can be put in; the
   fmodel starts at either structure and with any of the data gradients. *)
InitSites ==
  InitWith({FALSE}, DataWeightArgs, ScaleArgs,
           { [sites |-> ref, f_obs |-> With(BaseSites, p)] :
               ref \in References, p \in Patterns },
           {RM0, RM1}, {0})

NextSites ==
  \/ target_and_gradients
  \/ update_restraints_weight_scale

SpecSites == InitSites /\ [][NextSites]_vars

(* The displacement-parameter calculator alone, built from any weights and
   over any data. *)
InitAdp ==
  /\ weights_init(FALSE, R(1), None, R(1))
  /\ sites_init(FModel0, RM0)
  /\ py_random = 0
  /\ flex_random = 0
  /\ \E dw \in DataWeightArgs, rws \in ScaleArgs \cup {None},
        uo \in UIsoVectors, u \in UIsoVectors :
        adp_init([u_iso |-> u, u_obs |-> uo], RM0, R(1), dw, rws)
  /\ session = None
  /\ dump_gradients = None
  /\ sites_opt = None
  /\ dumped = <<>>
  /\ last = NotCalled
  /\ ncalls = 0

NextAdp ==
  \/ adp_calculate_weight
  \/ adp_target_and_gradients

SpecAdp == InitAdp /\ [][NextAdp]_vars

(* The sites calculator and the controller that shares its weights object,
   from the state calculate_weight leaves: a weights object built without a
   data weight, the weight then computed from the calculator's fmodel (one
   whose data gradient stands out on the first atom). *)
InitShared ==
  \E rws \in ScaleArgs, p \in {q \in Patterns : q[1][1] > 1} :
    LET fm == [sites |-> BaseSites, f_obs |-> With(BaseSites, p)]
        w  == ComputedWeight(fm, RM1, FALSE)
    IN /\ w # Undefined
       /\ shake_sites = FALSE
       /\ restraints_weight = R(1)
       /\ data_weight = w
       /\ restraints_weight_scale = rws
       /\ weight_was_provided = FALSE
       /\ restraints_weight_scales = <<rws>>
       /\ r_frees = <<>>
       /\ r_works = <<>>
       /\ ctor = [data_weight |-> None, restraints_weight_scale |-> rws]
       /\ sites_init(CallerFModel(fm, FALSE), RM1)
       /\ py_random = Reseeded(0)
       /\ flex_random = PerturbedSites(fm, FALSE).random
       /\ adp = None
       /\ session = None
       /\ dump_gradients = None
       /\ sites_opt = None
       /\ dumped = <<>>
       /\ last = Call("calculate_weight", [fmodel |-> fm, rm |-> RM1], "None",
                      "", 2, rws)
       /\ ncalls = 0

NextShared ==
  \/ adjust_restraints_weight_scale
  \/ scale_restraints_weight
  \/ update_restraints_weight_scale
  \/ target_and_gradients

SpecShared == InitShared /\ [][NextShared]_vars

(* The two calculators of the coordinates under the optimizer, each built
   with and without a file name for the gradient dump. *)
DumpNames == {None, <<"gradients">>}

InitDump ==
  /\ \E dw \in DataWeightArgs, rws \in ScaleArgs :
       weights_init(FALSE, R(1), dw, rws)
  /\ \E p \in Patterns : sites_init([sites |-> BaseSites,
                                      f_obs |-> With(BaseSites, p)], RM1)
  /\ py_random = 0
  /\ flex_random = 0
  /\ adp = None
  /\ session = None
  /\ dump_gradients \in DumpNames
  /\ \E rm \in {RM0, RM1}, name \in DumpNames :
       sites_opt_init(rm, BaseSites, name)
  /\ dumped = <<>>
  /\ last = NotCalled
  /\ ncalls = 0

NextDump ==
  \/ target_and_gradients
  \/ sites_opt_target_and_gradients

SpecDump == InitDump /\ [][NextDump]_vars

(* get_bonds_rmsd alone, on any structure and geometry. *)
InitProbe == InitWith({FALSE}, {None}, {R(1)}, {FModel0}, {RM0}, {0})

NextProbe == get_bonds_rmsd

SpecProbe == InitProbe /\ [][NextProbe]_vars

(* One call of run(), with any inputs. *)
InitRun == InitWith({FALSE}, {None}, {R(1)}, {FModel0}, {RM0}, {0})

NextRun == run

SpecRun == InitRun /\ [][NextRun]_vars

---------------------------------------------------------------------------
(* Properties of adjust_restraints_weight_scale, checked under SpecAdjust *)

\* the last call was adjust_restraints_weight_scale
AdjustCalled == last.op = "adjust_restraints_weight_scale"
\* ... on a weights object whose data weight was not provided
Adjusting == AdjustCalled /\ ~weight_was_provided

\* what the call did to restraints_weight_scale
Multiplied == restraints_weight_scale = RMul(last.pre_scale, last.args.scale)
Divided    == restraints_weight_scale = RDiv(last.pre_scale, last.args.scale)
Unchanged  == restraints_weight_scale = last.pre_scale

\* the comparisons of the call's inputs
RmsdAbove  == RGt(last.args.bonds_rmsd, last.args.max_bond_rmsd)
RmsdAt     == last.args.bonds_rmsd = last.args.max_bond_rmsd
FreeBelow  == RLt(last.args.r_free, last.args.r_work)
FreeEqual  == last.args.r_free = last.args.r_work
FreeAbove  == RGt(last.args.r_free, last.args.r_work)
\* |r_free - r_work| * 100
Gap        == RMul(RAbs(RSub(last.args.r_free, last.args.r_work)), R(100))

\* C1: one call changes restraints_weight_scale by at most one factor (it is
\* the old value, the old value times scale or the old value over scale; a
\* reported adjustment with scale # 1 is a change and no reported adjustment
\* is no change), and whenever bond_rmsd > max_bond_rmsd the change is the
\* multiplication by scale, whatever r_work and r_free are.
C1_PriorityOrder ==
  Adjusting =>
    /\ Multiplied \/ Divided \/ Unchanged
    /\ last.ret = "False" => Unchanged
    /\ (last.ret = "True" /\ last.args.scale # R(1)) => ~Unchanged
    /\ RmsdAbove => (Multiplied /\ last.ret = "True")

\* a call with the rmsd above the threshold and r_free below r_work, which
\* multiplied
C1_Witness ==
  /\ Adjusting /\ RmsdAbove /\ FreeBelow
  /\ last.args.scale # R(1)
  /\ Multiplied /\ ~Unchanged

\* C2, as claimed: with bond_rmsd <= max_bond_rmsd (equality included),
\* r_free > r_work and a gap below 5 the call divides by scale and reports
\* an adjustment (stated for the scale factors other than 1).
C2_Claim ==
  (/\ Adjusting /\ last.args.scale # R(1)
   /\ ~RmsdAbove /\ FreeAbove /\ RLt(Gap, R(5))) =>
    (Divided /\ last.ret = "True")

\* C3, as claimed: with bond_rmsd <= max_bond_rmsd, r_free > r_work and a
\* gap of 5 or more (exactly 5 included) the call multiplies by scale and
\* reports an adjustment (stated for the scale factors other than 1).
C3_Claim ==
  (/\ Adjusting /\ last.args.scale # R(1)
   /\ ~RmsdAbove /\ FreeAbove /\ ~RLt(Gap, R(5))) =>
    (Multiplied /\ last.ret = "True")

\* C4: with bond_rmsd not above max_bond_rmsd and r_free < r_work the call
\* divides restraints_weight_scale by scale exactly once, whatever the gap.
C4_LoosenWhenFreeBelow ==
  (Adjusting /\ ~RmsdAbove /\ FreeBelow) =>
    (Divided /\ last.ret = "True")

\* a call with r_free below r_work by a gap of more than 5, which divided
C4_Witness ==
  /\ Adjusting /\ ~RmsdAbove /\ FreeBelow /\ RGt(Gap, R(5))
  /\ last.args.scale # R(1)
  /\ Divided

\* C5, as claimed: some branch fires in every call, so no call reports "no
\* adjustment".
C5_Claim == Adjusting => last.ret = "True"

\* C5, amended: no branch fires exactly when bond_rmsd is not above
\* max_bond_rmsd and either r_free = r_work, or r_free > r_work with
\* bond_rmsd = max_bond_rmsd or a gap of exactly 5; the call then leaves
\* restraints_weight_scale unchanged and reports no adjustment.
C5_NotExhaustive ==
  Adjusting =>
    /\ last.ret = "False" <=>
         /\ ~RmsdAbove
         /\ \/ FreeEqual
            \/ FreeAbove /\ (RmsdAt \/ Gap = R(5))
    /\ last.ret = "False" => Unchanged

\* a call with r_free = r_work below the threshold, in which no branch fired
C5_Witness ==
  /\ Adjusting /\ FreeEqual /\ ~RmsdAbove /\ ~RmsdAt
  /\ last.ret = "False" /\ Unchanged

\* C6, as claimed: every call, the no-op call on a provided weight included,
\* returns false exactly when it left restraints_weight_scale unchanged and
\* true exactly when it changed it (stated for the scale factors other than
\* 1, with which a multiplication or division is a change).
C6_Claim ==
  (AdjustCalled /\ last.args.scale # R(1)) =>
    /\ last.ret = "False" <=> Unchanged
    /\ last.ret = "True" <=> ~Unchanged

\* C6, amended: with the weight provided the call returns None and leaves
\* restraints_weight_scale unchanged; otherwise it returns False exactly when
\* no branch fired, the scale then unchanged, and True exactly when a branch
\* fired, the scale then multiplied or divided by scale (a change whenever
\* scale # 1).
C6_ReturnValue ==
  AdjustCalled =>
    /\ weight_was_provided => (last.ret = "None" /\ Unchanged)
    /\ ~weight_was_provided =>
         /\ last.ret \in {"True", "False"}
         /\ last.ret = "False" => Unchanged
         /\ last.ret = "True" => (Multiplied \/ Divided)
         /\ last.args.scale # R(1) => (last.ret = "True" <=> ~Unchanged)

\* a call on a provided weight, which returned None
C6_Witness ==
  /\ AdjustCalled /\ weight_was_provided
  /\ last.ret = "None" /\ Unchanged

\* C17: every call of adjust_restraints_weight_scale with
\* weight_was_provided false appends exactly the rounded r_free of the call
\* to r_frees and the rounded r_work to r_works, whether or not a branch
\* fired, and no other method touches the two lists; so the lists have equal
\* length at all times, one entry for each such call.
C17_HistoryPerCall ==
  /\ [](Len(r_frees) = Len(r_works))
  /\ [][IF Adjusting'
        THEN /\ r_frees' = Append(r_frees, Round4(last'.args.r_free))
             /\ r_works' = Append(r_works, Round4(last'.args.r_work))
        ELSE UNCHANGED <<r_frees, r_works>>]_vars

\* two calls in neither of which a branch fired, both recorded, the R
\* factors of the second rounded to four decimals
C17_Witness ==
  /\ Adjusting /\ last.ret = "False"
  /\ restraints_weight_scale = ctor.restraints_weight_scale
  /\ Len(r_frees) = 2 /\ Len(r_works) = 2
  /\ last.args.r_free = Rat(21, 100) /\ r_frees[2] = Rat(21, 100)

\* C18: scale_restraints_weight with weight_was_provided false multiplies
\* restraints_weight_scale by exactly 4 on every call (it takes no R factor,
\* rmsd or scale argument) and changes no other field of the weights object.
C18_Quadruples ==
  [][(last'.op = "scale_restraints_weight" /\ ~weight_was_provided) =>
       /\ restraints_weight_scale' = RMul(restraints_weight_scale, R(4))
       /\ UNCHANGED <<shake_sites, restraints_weight, data_weight,
                      weight_was_provided, restraints_weight_scales,
                      r_frees, r_works>>]_vars

\* a quadrupling that followed an adjustment: the scale is 4 times what the
\* adjustment left, the histories hold the adjustment's entry
C18_Witness ==
  /\ last.op = "scale_restraints_weight" /\ ~weight_was_provided
  /\ ncalls >= 2
  /\ Len(r_frees) = 1
  /\ last.pre_scale # ctor.restraints_weight_scale
  /\ restraints_weight_scale = RMul(last.pre_scale, R(4))

---------------------------------------------------------------------------
(* Properties of a weights object whose data weight was provided *)

\* C7: with weight_was_provided true, compute_weight,
\* adjust_restraints_weight_scale, scale_restraints_weight (and
\* add_restraints_weight_scale_to_restraints_weight_scales) change nothing in
\* any order and number of calls: data_weight, restraints_weight_scale and
\* the three histories are as the constructor left them, and the call asked
\* no evaluator.  Checked under SpecProvided.
C7_ProvidedNoOps ==
  weight_was_provided =>
    /\ data_weight = ctor.data_weight
    /\ restraints_weight_scale = ctor.restraints_weight_scale
    /\ restraints_weight_scales = <<ctor.restraints_weight_scale>>
    /\ r_frees = <<>>
    /\ r_works = <<>>
    /\ last.evaluator_calls = 0

\* the last of several calls on a provided weight was scale_restraints_weight
C7_Witness ==
  /\ weight_was_provided
  /\ ncalls >= 2
  /\ last.op = "scale_restraints_weight"

\* C8, as claimed: with weight_was_provided true, restraints_weight_scale
\* and data_weight are as the constructor left them in every state the
\* weights methods and the sites calculator's calculate_weight,
\* update_restraints_weight_scale and target_and_gradients can reach.
\* Checked under Spec.
C8_Claim ==
  weight_was_provided =>
    /\ restraints_weight_scale = ctor.restraints_weight_scale
    /\ data_weight = ctor.data_weight

---------------------------------------------------------------------------
(* Properties of compute_weight, checked under SpecEstimate *)

\* the last call was compute_weight on a weight that was not provided
Estimating == last.op = "compute_weight" /\ ~weight_was_provided

\* the gradients of the call, at the perturbed structure
LastSites == PerturbedSites(last.args.fmodel, shake_sites).sites
LastGx    == DataGradient(UpdateXrayStructure(last.args.fmodel, LastSites))
LastGc    == RestraintsGradient(last.args.rm, LastSites)

AllZero(g) == \A i \in 1..Len(g) : g[i] = <<0, 0, 0>>

\* some atom with a gradient is kept by the outlier selection
SomeRetained(g) ==
  \E i \in 1..Len(g) : g[i] # <<0, 0, 0>> /\ ~OutlierSelection(g)[i]

C10_NoDivisionByZero ==
  Estimating =>
    /\ last.raised = ""
    /\ data_weight # None
    /\ data_weight # Undefined
    /\ ~SomeRetained(LastGx) => data_weight = R(1)

\* a call where the data gradient is not zero and every atom that has one was
\* rejected as an outlier
C10_Witness ==
  /\ Estimating
  /\ ~AllZero(LastGx) /\ ~SomeRetained(LastGx)
  /\ SomeRetained(LastGc)
  /\ data_weight = R(1)

\* C11: compute_weight is deterministic: a call that follows a call with the
\* same fmodel and the same restraints manager leaves the same data_weight,
\* whatever state the generators were in before either call (the states the
\* behaviour starts in and the state the earlier call's shaking left).
C11_Deterministic ==
  [][(/\ Estimating /\ last.raised = ""
      /\ Estimating' /\ last'.raised = ""
      /\ last'.args = last.args) => data_weight' = data_weight]_vars

\* a second call that shook the structure, the generator having been advanced
\* by the shaking of the first, and found a weight that is not the fallback
C11_Witness ==
  /\ Estimating /\ shake_sites
  /\ ncalls >= 2
  /\ flex_random # Seed(1)
  /\ ~AllZero(LastGx) /\ ~AllZero(LastGc)
  /\ data_weight \notin {R(0), R(1)}

\* C22, as claimed: once compute_weight has set data_weight on a weights
\* object built without a user weight, a later compute_weight call on that
\* object leaves data_weight unchanged, whatever structure it is given.
C22_Claim ==
  [][(/\ Estimating /\ last.raised = "" /\ data_weight # None
      /\ last'.op = "compute_weight") => data_weight' = data_weight]_vars

---------------------------------------------------------------------------
(* Properties of the outlier selection, checked under SpecMask *)

---------------------------------------------------------------------------
(* Properties of sites.target_and_gradients, checked under SpecSites *)

\* the last call was target_and_gradients with a number in data_weight
Evaluated == last.op = "target_and_gradients" /\ data_weight # None

\* the structure x stands for, and the two evaluations at it
SitesAtX == Vec3Double(last.args.x)
DataTargetAtX ==
  DataTarget([sites |-> SitesAtX, f_obs |-> fmodel.f_obs])
DataGradientAtX ==
  AsDouble(DataGradient([sites |-> SitesAtX, f_obs |-> fmodel.f_obs]))
RestraintsTargetAtX ==
  RestraintsTarget(restraints_manager, SitesAtX)
RestraintsGradientAtX ==
  AsDouble(RestraintsGradient(restraints_manager, SitesAtX))

\* data_weight * d + restraints_weight * restraints_weight_scale * r
Blend(d, r) ==
  RAdd(RMul(data_weight, R(d)),
       RMul(RMul(restraints_weight, restraints_weight_scale), R(r)))

\* C13: for every parameter vector x and every weight state with a number in
\* data_weight, target_and_gradients returns the target data_weight *
\* data_target + restraints_weight * restraints_weight_scale *
\* restraints_target and a gradient of the length of x whose k-th element is
\* the same combination of the k-th elements of the data gradient and the
\* restraints gradient, all evaluated at x.
C13_Combination ==
  Evaluated =>
    /\ last.raised = ""
    /\ last.ret.target = Blend(DataTargetAtX, RestraintsTargetAtX)
    /\ Len(last.ret.gradient) = Len(last.args.x)
    /\ \A k \in 1..Len(last.args.x) :
         last.ret.gradient[k] = Blend(DataGradientAtX[k], RestraintsGradientAtX[k])

\* an evaluation with both targets non-zero, a data weight and a scale that
\* are not 1, at a vector that is not the structure the fmodel started with
C13_Witness ==
  /\ Evaluated
  /\ data_weight = Rat(1, 2) /\ restraints_weight_scale = R(32)
  /\ DataTargetAtX # 0 /\ RestraintsTargetAtX # 0
  /\ last.args.x # AsDouble(BaseSites)
  /\ last.ret.target = Blend(DataTargetAtX, RestraintsTargetAtX)

\* C14: target_and_gradients called twice in a row with the same vector
\* returns the same (target, gradient) pair, whatever structure the fmodel
\* held before the first of the two calls.
C14_Repeatable ==
  [][(/\ Evaluated /\ Evaluated'
      /\ last'.args = last.args) => last'.ret = last.ret]_vars

\* a second evaluation, at a vector that is not the structure the fmodel
\* started with, of a target with a data part
C14_Witness ==
  /\ Evaluated /\ ncalls >= 2
  /\ x = last.args.x
  /\ fmodel.sites # BaseSites
  /\ DataTargetAtX # 0
  /\ last.ret.target # R(0)

---------------------------------------------------------------------------
(* Properties of the displacement-parameter calculator, checked under
   SpecAdp *)

\* C15: adp.calculate_weight fails on every call with the error whose
\* message is 'Not implemented.' and assigns no field: the object after the
\* failed call is the object before it.
C15_NotImplemented ==
  [][last'.op = "adp.calculate_weight" =>
       (last'.raised = "RuntimeError" /\ adp' = adp)]_vars

\* a failed call on a calculator that has no data weight and was moved to
\* another x by an evaluation before
C15_Witness ==
  /\ last.op = "adp.calculate_weight" /\ last.raised = "RuntimeError"
  /\ ncalls >= 2
  /\ adp.data_weight = None
  /\ adp.x # adp.fmodel.u_obs

---------------------------------------------------------------------------
(* Properties of run() and create_calculator, checked under SpecRun *)

\* run() was called
Started == session # None
\* ... and loaded a restart file
Resumed == Started /\ session.resumed
\* ... and called create_calculator
CalculatorCreated ==
  Started /\ \E i \in 1..Len(session.calls) : session.calls[i] = "create_calculator"
\* the call name is among the calls run() made
Called(name) == \E i \in 1..Len(session.calls) : session.calls[i] = name

\* two weights objects decide alike in adjust_restraints_weight_scale
SameDecision(w, v) ==
  /\ w.weight_was_provided = v.weight_was_provided
  /\ \A rr \in RFactors, bb \in BondRmsds, scale \in AdjustScales :
       AdjustBranches(w.restraints_weight_scale, rr[1], rr[2], bb[1], bb[2], scale)
         = AdjustBranches(v.restraints_weight_scale, rr[1], rr[2], bb[1], bb[2], scale)

\* C16: when run() resumes from a restart file and comes to
\* create_calculator, the weights object create_calculator uses is the
\* object the interrupted session pickled, field by field (data_weight,
\* restraints_weight_scale, weight_was_provided and the three histories),
\* whatever the current parameters are, so that it decides every next
\* adjustment as the object of the interrupted session would.
C16_RestartRoundTrip ==
  (Resumed /\ CalculatorCreated) =>
    \E w \in BundleWeights :
      /\ Dumped(w) = session.inp.rst_file.weights
      /\ session.weights = w
      /\ SameDecision(session.weights, w)

\* a resumed session whose sites calculator holds the adjusted weights of the
\* bundle, with parameters that would build other weights
C16_Witness ==
  /\ Resumed /\ CalculatorCreated
  /\ session.calculator = "sites"
  /\ session.inp.data_weight = Rat(1, 2)
  /\ session.inp.restraints_weight_scale = R(32)
  /\ session.weights.data_weight = Rat(3, 2)
  /\ session.weights.restraints_weight_scale = R(4)
  /\ Len(session.weights.r_frees) = 2

\* C19, as claimed: every call of run() on a structure with more than
\* max_atoms atoms, fresh or resumed, fails with 'Too many atoms.' before any
\* restraints manager, weights, calculator or driver call.
C19_Claim ==
  (Started /\ session.inp.natoms > max_atoms) =>
    /\ session.raised = "Sorry: Too many atoms."
    /\ session.calls = <<"validate">>

\* C19, amended: a fresh start fails with 'Too many atoms.' exactly when the
\* structure has more than max_atoms atoms, and then after validate alone,
\* with no restraints manager, weights, calculator or driver call; a resume
\* from a restart file does not look at the number of atoms and goes on to
\* the restraints manager.
C19_FreshStartOnly ==
  Started =>
    /\ ~session.resumed =>
         /\ session.raised = "Sorry: Too many atoms."
               <=> session.inp.natoms > max_atoms
         /\ session.raised = "Sorry: Too many atoms." =>
               /\ session.calls = <<"validate">>
               /\ session.weights = None
               /\ session.calculator = "None"
    /\ session.resumed =>
         /\ session.raised # "Sorry: Too many atoms."
         /\ Called("create_restraints_manager")

\* a resumed session on a structure above the cap that reached the driver
C19_Witness ==
  /\ Resumed
  /\ session.inp.natoms > max_atoms
  /\ session.raised = ""
  /\ Called("driver.refine")

---------------------------------------------------------------------------
(* Properties of get_bonds_rmsd, checked under SpecProbe *)

\* the structure of the last call has no atom that is not a hydrogen
EmptySelection ==
  \A i \in 1..Len(last.args.xrs.hd) : last.args.xrs.hd[i]

\* C20, as claimed: get_bonds_rmsd on a structure whose non-hydrogen
\* selection is empty (no atoms, or only hydrogens) fails with
\* InvalidStructure and returns no number.
C20_Claim ==
  (last.op = "get_bonds_rmsd" /\ EmptySelection) =>
    last.raised = "InvalidStructure"

---------------------------------------------------------------------------
(* Properties of sites.calculate_weight, checked under SpecCalculate *)

\* C21: compute_weight with weight_was_provided false changes, of the
\* weights object and the calculator that called it, only data_weight: the
\* caller's fmodel and its sites, x and the restraints manager are after
\* the call what they were before it, with shake_sites on or off, and so
\* are restraints_weight_scale, restraints_weight, shake_sites,
\* weight_was_provided and the three histories.
C21_OnlyDataWeight ==
  [][(last'.op = "calculate_weight" /\ ~weight_was_provided) =>
       UNCHANGED <<fmodel, restraints_manager, x, shake_sites,
                   restraints_weight, restraints_weight_scale,
                   weight_was_provided, restraints_weight_scales,
                   r_frees, r_works>>]_vars

\* a call with shake_sites on that set a data weight from the shaken copy
\* (the generator was advanced) and left the structure where an evaluation
\* had put it
C21_Witness ==
  /\ last.op = "calculate_weight" /\ ~weight_was_provided
  /\ shake_sites
  /\ ncalls >= 2
  /\ flex_random # Seed(1)
  /\ data_weight # None
  /\ fmodel.sites # BaseSites
  /\ PerturbedSites(fmodel, shake_sites).sites # fmodel.sites

---------------------------------------------------------------------------
(* Properties of the gradient dump, checked under SpecDump *)

\* the call returned a target and a gradient
Returned(l) == l.raised = "" /\ DOMAIN l.ret = {"target", "gradient"}
\* the call ended in STOP() and returned nothing
Stopped(l)  == l.raised \in StopOutcomes /\ l.ret = "None"

\* C23: a target_and_gradients call of sites or of sites_opt whose calculator
\* has no dump_gradients writes no file and returns (target, gradient); a
\* call whose calculator has one writes its dump (three files for sites, one
\* for sites_opt) and ends in STOP() without returning a value.  For sites
\* both halves are stated for a numeric data_weight: with None the
\* combination raises before line 221 is reached.
C23_DumpOnlyWhenSet ==
  [][/\ last'.op = "target_and_gradients" =>
          IF dump_gradients = None
          THEN /\ dumped' = dumped
               /\ data_weight # None => Returned(last')
          ELSE data_weight # None =>
                 /\ Len(dumped') = Len(dumped) + 3
                 /\ SubSeq(dumped', 1, Len(dumped)) = dumped
                 /\ Stopped(last')
     /\ last'.op = "sites_opt.target_and_gradients" =>
          IF sites_opt.dump_gradients = None
          THEN dumped' = dumped /\ Returned(last')
          ELSE /\ Len(dumped') = Len(dumped) + 1
               /\ SubSeq(dumped', 1, Len(dumped)) = dumped
               /\ Stopped(last')]_vars

\* sites_opt without a file name has returned its pair, then sites with one
\* has written its three files and stopped
C23_Witness ==
  /\ ncalls = 2
  /\ sites_opt.dump_gradients = None
  /\ sites_opt.x # AsDouble(sites_opt.xray_structure)
  /\ Len(dumped) = 3
  /\ dump_gradients # None
  /\ last.op = "target_and_gradients"
  /\ Stopped(last)

---------------------------------------------------------------------------
(* Properties of run() with a density map, checked under SpecRun *)

\* run() was called with a map and in mode 'refine'
MapRefine == Started /\ session.inp.map_data /\ session.inp.mode = "refine"

\* C24: a run() with a density map and mode 'refine' builds no weights
\* object and no calculator of the adaptive loop, and calls neither driver
\* nor finalize; once it is past its start-up (no error, no dry-run return)
\* what it runs is the real-space refinement, with target weight 1 and at
\* most 100 iterations.
C24_RealSpaceOnly ==
  MapRefine =>
    /\ ~Called("create_calculator")
    /\ ~Called("driver.refine") /\ ~Called("driver.opt")
    /\ ~Called("results_manager.finalize")
    /\ session.weights = None
    /\ session.calculator \in {"None", "sites_real_space"}
    /\ Called("create_restraints_manager") =>
         /\ Called("sites_real_space.run")
         /\ session.calculator = "sites_real_space"
         /\ session.real_space.weight = 1
         /\ session.real_space.iterations <= 100

\* a resumed session with a map whose minimizer would need more than 100
\* iterations and was stopped at 100
C24_Witness ==
  /\ MapRefine /\ Resumed
  /\ session.inp.refine_sites
  /\ session.inp.lbfgs_needs > 100
  /\ Called("sites_real_space.run")
  /\ session.real_space.iterations = 100

---------------------------------------------------------------------------
(* Properties of the recorded history, checked under SpecAdjust *)

\* the last call was add_restraints_weight_scale_to_restraints_weight_scales
AddCalled == last.op = "add_restraints_weight_scale_to_restraints_weight_scales"

\* the calls so far are one macro-cycle on a weights object whose data
\* weight was not provided: one adjust (the entry in r_frees), then one add
OneCycle ==
  /\ ~weight_was_provided
  /\ ncalls = 2 /\ AddCalled /\ Len(r_frees) = 1

\* h is kept at the front of g, entry for entry
KeptIn(h, g) == Len(h) <= Len(g) /\ SubSeq(g, 1, Len(h)) = h

\* C25, as claimed for the count: after one macro-cycle each of
\* restraints_weight_scales, r_works and r_frees holds exactly one entry.
C25_Claim ==
  OneCycle =>
    /\ Len(restraints_weight_scales) = 1
    /\ Len(r_works) = 1
    /\ Len(r_frees) = 1

\* C25, amended: the three sequences are append-only: no call changes,
\* removes or reorders an entry; add appends the current scale to
\* restraints_weight_scales and nothing else touches that list; adjust
\* appends one entry to r_works and one to r_frees.  restraints_weight_scales
\* starts with the constructor's scale, so after a macro-cycle it holds two
\* entries (the initial scale, then the scale of the cycle) while r_works
\* and r_frees hold one; on a weights object whose data weight was provided
\* none of the three ever grows.
C25_AppendOnly ==
  /\ [](OneCycle =>
          /\ restraints_weight_scales =
               <<ctor.restraints_weight_scale, restraints_weight_scale>>
          /\ Len(r_works) = 1 /\ Len(r_frees) = 1)
  /\ [](weight_was_provided =>
          /\ restraints_weight_scales = <<ctor.restraints_weight_scale>>
          /\ r_works = <<>> /\ r_frees = <<>>)
  /\ [][/\ KeptIn(restraints_weight_scales, restraints_weight_scales')
        /\ KeptIn(r_works, r_works')
        /\ KeptIn(r_frees, r_frees')
        /\ restraints_weight_scales' =
             IF AddCalled' /\ ~weight_was_provided
             THEN Append(restraints_weight_scales, restraints_weight_scale)
             ELSE restraints_weight_scales
        /\ Len(r_works') = Len(r_works) + (IF Adjusting' THEN 1 ELSE 0)
        /\ Len(r_frees') = Len(r_frees) + (IF Adjusting' THEN 1 ELSE 0)]_vars

\* one macro-cycle whose adjust changed the scale: the list holds the
\* constructor's scale and the new one
C25_Witness ==
  /\ OneCycle
  /\ Len(restraints_weight_scales) = 2
  /\ restraints_weight_scales[2] # restraints_weight_scales[1]
  /\ restraints_weight_scales[2] = restraints_weight_scale

---------------------------------------------------------------------------
(* Properties of the shared weights object, checked under SpecShared *)

\* the last call was one of the three that write restraints_weight_scale,
\* and it changed it
ScaleChanged ==
  /\ last.op \in {"adjust_restraints_weight_scale", "scale_restraints_weight",
                  "update_restraints_weight_scale"}
  /\ restraints_weight_scale # last.pre_scale

\* data_weight * d + restraints_weight * rws * r
BlendAt(rws, d, r) ==
  RAdd(RMul(data_weight, R(d)), RMul(RMul(restraints_weight, rws), R(r)))

\* the target and the gradient at the vector xs, combined with the scale rws
TargetAt(rws, xs) ==
  BlendAt(rws, DataTarget([sites |-> Vec3Double(xs), f_obs |-> fmodel.f_obs]),
          RestraintsTarget(restraints_manager, Vec3Double(xs)))
GradientAt(rws, xs) ==
  LET dg == AsDouble(DataGradient([sites |-> Vec3Double(xs),
                                   f_obs |-> fmodel.f_obs]))
      rg == AsDouble(RestraintsGradient(restraints_manager, Vec3Double(xs)))
  IN Tuple([k \in 1..Len(xs) |-> BlendAt(rws, dg[k], rg[k])])

\* C26: every target_and_gradients call combines its target and gradient
\* with the restraints_weight_scale the weights object holds when the call
\* is made; when the call before it was an adjust, a scale or an update that
\* changed the scale, the target is the one of the new scale and (where the
\* restraints target is not zero) not the one of the scale before the change.
C26_ScaleAtCallTime ==
  [][(last'.op = "target_and_gradients" /\ data_weight # None) =>
       \E xs \in {last'.args.x} :
         /\ last'.raised = ""
         /\ last'.ret.target = TargetAt(restraints_weight_scale, xs)
         /\ last'.ret.gradient = GradientAt(restraints_weight_scale, xs)
         /\ (/\ ScaleChanged
             /\ RestraintsTarget(restraints_manager, Vec3Double(xs)) # 0) =>
              last'.ret.target # TargetAt(last.pre_scale, xs)]_vars

\* an evaluation right after an adjust changed the scale the calculator was
\* built with
C26_Witness ==
  /\ Evaluated /\ ncalls = 2
  /\ ~weight_was_provided
  /\ Len(r_frees) = 1
  /\ restraints_weight_scale # ctor.restraints_weight_scale
  /\ RestraintsTargetAtX # 0
  /\ last.ret.target = Blend(DataTargetAtX, RestraintsTargetAtX)
  /\ last.ret.target #
       BlendAt(ctor.restraints_weight_scale, DataTargetAtX, RestraintsTargetAtX)

---------------------------------------------------------------------------
(* The closed form of restraints_weight_scale, checked under SpecAdjust *)

RECURSIVE RPow(_, _)
\* q to the power n, n an integer
RPow(q, n) ==
  IF n = 0 THEN R(1)
  ELSE IF n > 0 THEN RMul(q, RPow(q, n - 1))
  ELSE RDiv(RPow(q, n + 1), q)

\* s0 * 2^a * (3/2)^b * 4^m, the adjust factors of the model being 1, 2, 3/2
ClosedForm(s0, a, b, m) ==
  RMul(RMul(s0, RPow(R(2), a)), RMul(RPow(Rat(3, 2), b), RPow(R(4), m)))

---------------------------------------------------------------------------
(* Properties of create_calculator, checked under SpecRun *)

\* the calculator the parameters ask for
Requested(params) ==
  IF params.refine_sites
  THEN (IF params.mode = "refine" THEN "sites" ELSE "sites_opt")
  ELSE IF params.refine_adp THEN "adp" ELSE "None"

\* C28, as claimed: whenever run() comes to create_calculator, the call
\* raises nothing and returns the calculator the parameters ask for: sites,
\* sites_opt, or adp when refine_sites is off and refine_adp is on.
C28_Claim ==
  CalculatorCreated =>
    /\ session.raised = ""
    /\ session.calculator = Requested(session.inp)
    /\ session.calculator # "None"

\* C29, as claimed: a run() with refine.dry_run true, fresh or resumed,
\* returns before any calculator is created or run, before the driver is
\* called and before the results are finalized.
C29_Claim ==
  (Started /\ session.inp.dry_run) =>
    /\ ~Called("create_calculator")
    /\ ~Called("sites_real_space.run")
    /\ ~Called("driver.refine") /\ ~Called("driver.opt")
    /\ ~Called("results_manager.finalize")
    /\ session.calculator = "None"

============================================================================
